---- MODULE Spec2Model ----
(***************************************************************************)
(* Model of holodeck's HolodeckCog (src/holodeck/cog.py): the scene store  *)
(* (shelve file + _scene_cache), the add_scene command and the banish      *)
(* command with its global asyncio.Lock and the move_user scope.           *)
(*                                                                         *)
(* The bot runs on one asyncio event loop, so a handler runs without       *)
(* interruption from one suspension point to the next.  Every action below *)
(* is one such run: it starts where an awaited call returns (or where the  *)
(* command arrives) and ends where the next awaited call suspends.  An     *)
(* awaited collaborator call may return or raise; both outcomes are drawn  *)
(* with \E.  "await self.play_file(...)" and the uncontended               *)
(* "async with self._lock" never suspend (play_file has no await inside,   *)
(* asyncio.Lock.acquire returns at once when the lock is free).            *)
(***************************************************************************)
EXTENDS Integers, Sequences, FiniteSets, TLC

\* ------------------------------------------------------------- bounds
MaxBanish == 2      \* banish invocations in flight at once
MaxReg == 2         \* add_scene invocations in flight at once

\* the invocations of each command that can be in flight at once
Banishers == 1..MaxBanish
Registrars == 1..MaxReg

\* ------------------------------------------------------ program values
None == "None"
Users == {"u1"}
CHANNEL == "Dest"                       \* settings.CHANNEL, the banish channel
Channels == {"A", "C", CHANNEL}
Names == {"cave", "void"}
Urls == {"yt1", "yt2"}

\* runtime_seconds / start_time_seconds are floats >= 0 (Range[float, 0.0]).
\* They are represented in half-milliseconds (1/2000 s), so that
\* int(x * 1000) has a fraction to drop.
RuntimeSeconds == {0, 3, 20000, 30000, 60001, 90000}
StartSeconds == {0, 10000, 10001, 30000}
\* data["duration"], whole seconds
Durations == {0, 10, 42}

\* int(seconds * 1000), seconds given in half-milliseconds
Millis(halfms) == halfms \div 2

\* min(a, b, c)
Min3(a, b, c) ==
    IF a <= b /\ a <= c THEN a ELSE IF b <= c THEN b ELSE c

\* runtime_millis=min(30_000, runtime_millis, duration_millis - start_time_millis)
RuntimeCap == 30000

\* mutant: the start offset is not taken off the clip's length
ClippedRuntimeWholeClip(runtime_millis, start_time_millis, duration_millis) ==
    Min3(RuntimeCap, runtime_millis, duration_millis)

ClippedRuntime(runtime_millis, start_time_millis, duration_millis) ==
    Min3(RuntimeCap, runtime_millis, duration_millis - start_time_millis)

\* Scene(...) as add_scene builds it
MakeScene(a, path, duration_millis) ==
    [name |-> a.name,
     creator |-> a.user,
     audio_url |-> a.youtube_url,
     audio_path |-> path,
     start_time_millis |-> Millis(a.start_time_seconds),
     runtime_millis |-> ClippedRuntime(Millis(a.runtime_seconds),
                                       Millis(a.start_time_seconds),
                                       duration_millis),
     image_url |-> a.image_url]

\* mutant: the assignment drops the other keys
DictPutOnly(d, key, value) == [k \in {key} |-> value]

\* d[key] = value on a dict
DictPut(d, key, value) ==
    [k \in DOMAIN d \cup {key} |-> IF k = key THEN value ELSE d[k]]

EmptyDict == [k \in {} |-> None]

NoArgs == [name |-> None]
NoScene == [name |-> None]
NoDownload == [path |-> None, duration_millis |-> 0]

VARIABLES
    shelf,          \* the shelve file data/scenes.shelve: name -> Scene
    cache,          \* self._scene_cache: name -> Scene
    regPc,          \* add_scene invocation: "idle" (none in flight) or where it is suspended
    regArgs,        \* add_scene invocation: its arguments
    regDl,          \* add_scene slot: (path, duration_millis) of the last download
    regResp,        \* add_scene slot: what the last invocation told its user
    lock,           \* self._lock, an asyncio.Lock: _locked and _waiters
    voice,          \* member -> member.voice.channel, None when not in voice
    frame,          \* banish invocation: where it is suspended, and its locals
    voice_client,   \* banish slot: the voice session of its last invocation
    resp,           \* banish slot: what the last invocation told its user
    raised,         \* banish slot: the exception that ended the last invocation
    log             \* banish slot: what the last invocation did, in order

regVars == <<shelf, cache, regPc, regArgs, regDl, regResp>>
banishVars == <<lock, voice, frame, voice_client, resp, raised, log>>
vars == <<shelf, cache, regPc, regArgs, regDl, regResp,
          lock, voice, frame, voice_client, resp, raised, log>>

\* ---------------------------------------------------------- scene store

\* the path do_youtube_dl returns for a url
DownloadPath(url) == <<"data/youtubedl", url>>

\* do_youtube_dl's return value: (relpath(filename), data["duration"] * 1000)
DownloadResult(url, duration) ==
    [path |-> DownloadPath(url), duration_millis |-> duration * 1000]

\* a store the program can have left on disk: nothing, or a scene that
\* add_scene built (10 s from the start of a 42 s clip)
StoredScene(n, url) ==
    MakeScene([name |-> n, user |-> "u1", youtube_url |-> url, image_url |-> "img",
               runtime_seconds |-> 20000, start_time_seconds |-> 0, overwrite |-> FALSE],
              DownloadPath(url), 42000)

InitialStores ==
    {EmptyDict,
     [n \in {"cave"} |-> StoredScene(n, "yt1")]}

\* HolodeckCog.__init__: scene_cache = dict(s)
InitStore ==
    /\ shelf \in InitialStores
    /\ cache = shelf

InitReg ==
    /\ regPc = [g \in Registrars |-> "idle"]
    /\ regArgs = [g \in Registrars |-> NoArgs]
    /\ regDl = [g \in Registrars |-> NoDownload]
    /\ regResp = [g \in Registrars |-> None]

\* the arguments an add_scene command can carry: any name and url with the
\* default window, and one name and url with any window
AddSceneArgs ==
    [name : Names, user : {"u1"}, youtube_url : Urls, image_url : {"img"},
     runtime_seconds : {20000}, start_time_seconds : {0}, overwrite : BOOLEAN]

AddSceneWindowArgs ==
    [name : {"cave"}, user : {"u1"}, youtube_url : {"yt1"}, image_url : {"img"},
     runtime_seconds : RuntimeSeconds, start_time_seconds : StartSeconds,
     overwrite : BOOLEAN]

\* mutant: the overwrite flag read the wrong way round
IsDuplicateFlagInverted(c, a) == a.name \in DOMAIN c /\ a.overwrite

\* if name in self._scene_cache and not overwrite
IsDuplicate(c, a) == a.name \in DOMAIN c /\ ~a.overwrite

\* an invocation takes the lowest free slot
RegSlotFree(g) ==
    /\ regPc[g] = "idle"
    /\ \A h \in Registrars : h < g => regPc[h] # "idle"

\* add_scene, from the command's arrival to the await of do_youtube_dl
AddSceneRequest(g, a) ==
    /\ RegSlotFree(g)
    /\ IF IsDuplicate(cache, a)
       THEN /\ regResp' = [regResp EXCEPT ![g] = "duplicate"]
            /\ UNCHANGED <<regPc, regArgs, regDl>>
       ELSE /\ regResp' = [regResp EXCEPT ![g] = "deferred"]
            /\ regDl' = [regDl EXCEPT ![g] = NoDownload]
            /\ regPc' = [regPc EXCEPT ![g] = "downloading"]
            /\ regArgs' = [regArgs EXCEPT ![g] = a]
    /\ UNCHANGED <<shelf, cache>>
    /\ UNCHANGED banishVars

\* write_scene: the shelve write, then the cache update.  wr is how the
\* shelve block ends: "ok", "store_failed" (s[name] = scene raised) or
\* "close_failed" (the record was stored and closing the shelf raised).
WriteOutcomes == {"ok", "store_failed", "close_failed"}

ShelfAfterWrite(s, scene, wr) ==
    IF wr = "store_failed" THEN s ELSE DictPut(s, scene.name, scene)

\* mutant: the first Scene written under a name is kept
CacheAfterWriteKeepFirst(c, scene, wr) ==
    IF wr = "ok" /\ scene.name \notin DOMAIN c THEN DictPut(c, scene.name, scene) ELSE c

CacheAfterWrite(c, scene, wr) ==
    IF wr = "ok" THEN DictPut(c, scene.name, scene) ELSE c

\* the handler returns (or an exception leaves it): its locals are gone
RegReturn(g, answer) ==
    /\ regResp' = [regResp EXCEPT ![g] = answer]
    /\ regPc' = [regPc EXCEPT ![g] = "idle"]
    /\ regArgs' = [regArgs EXCEPT ![g] = NoArgs]

\* mutant: the except branch answers the user and a Scene without audio is
\* written all the same
DownloadNotFoundWritesScene(g) ==
    /\ regPc[g] = "downloading"
    /\ LET scene == MakeScene(regArgs[g], None, 0)
       IN /\ shelf' = ShelfAfterWrite(shelf, scene, "ok")
          /\ cache' = CacheAfterWrite(cache, scene, "ok")
    /\ RegReturn(g, "bad_url")
    /\ UNCHANGED regDl
    /\ UNCHANGED banishVars

\* add_scene, from the return of do_youtube_dl to the end: the download
\* raised IndexError
DownloadNotFound(g) ==
    /\ regPc[g] = "downloading"
    /\ RegReturn(g, "bad_url")
    /\ UNCHANGED <<shelf, cache, regDl>>
    /\ UNCHANGED banishVars

\* the download raised anything else: nothing catches it
DownloadRaises(g) ==
    /\ regPc[g] = "downloading"
    /\ RegReturn(g, "error")
    /\ UNCHANGED <<shelf, cache, regDl>>
    /\ UNCHANGED banishVars

\* the download returned: build the Scene and write it
DownloadReturns(g, duration, wr) ==
    /\ regPc[g] = "downloading"
    /\ LET dl == DownloadResult(regArgs[g].youtube_url, duration)
           scene == MakeScene(regArgs[g], dl.path, dl.duration_millis)
       IN /\ regDl' = [regDl EXCEPT ![g] = dl]
          /\ shelf' = ShelfAfterWrite(shelf, scene, wr)
          /\ cache' = CacheAfterWrite(cache, scene, wr)
    /\ RegReturn(g, IF wr = "ok" THEN "created" ELSE "error")
    /\ UNCHANGED banishVars

\* ------------------------------------------------------------ the lock

\* asyncio.Lock()
NewLock == [locked |-> FALSE, waiters |-> <<>>]

\* mutant: the busy pre-check never sees the lock held
LockLockedNever(l) == FALSE

\* Lock.locked()
LockLocked(l) == l.locked

\* Lock.acquire() returns without suspending: the lock is free and nobody waits
LockFastPath(l) == ~l.locked /\ l.waiters = <<>>

\* mutant: the lock block is entered without the lock being held
LockTakenNot(l) == l

\* Lock.acquire(), fast path and the wake-up of a waiter: self._locked = True
LockTaken(l) == [l EXCEPT !.locked = TRUE]

\* Lock.acquire(), slow path: the caller queues on _waiters and suspends
LockQueued(l, r) == [l EXCEPT !.waiters = Append(@, r)]

\* Lock.release()
LockReleased(l) == [l EXCEPT !.locked = FALSE]

\* mutant: acquire()/release() without try/finally, so an exception skips
\* the release
LockOnExitNormalOnly(l, e) == IF e = None THEN LockReleased(l) ELSE l

\* the end of "async with self._lock", left normally (e = None) or by
\* exception e: __aexit__ releases either way
LockOnExit(l, e) == LockReleased(l)

\* -------------------------------------------------------------- banish

\* nothing has been played
NoPlay == [path |-> None, start_millis |-> None, runtime_millis |-> None]

\* the locals of a banish invocation, and what it handed to play_file and to
\* asyncio.sleep
IdleFrame ==
    [pc |-> "idle", who |-> None, scene |-> NoScene, old_channel |-> None, exc |-> None,
     played |-> NoPlay, slept |-> None]

\* play_file(voice_client, scene.audio_path, scene.start_time_millis,
\* scene.runtime_millis)
PlayArgs(scene) ==
    [path |-> scene.audio_path,
     start_millis |-> scene.start_time_millis,
     runtime_millis |-> scene.runtime_millis]

\* mutant: the wait reads the Scene from the cache again
SleepMillisFromCache(scene, c) == c[scene.name].runtime_millis

\* asyncio.sleep(scene.runtime_millis / 1000), in milliseconds: scene is the
\* local read before the lock, c the cache at the time of the call
SleepMillis(scene, c) == scene.runtime_millis

\* the steps at which an invocation is inside "async with self._lock"
LockedPcs == {"connecting", "moving_in", "announcing", "sleeping", "restoring",
              "disconnecting"}

InitBanish ==
    /\ lock = NewLock
    /\ voice \in [Users -> Channels \cup {None}]
    /\ frame = [r \in Banishers |-> IdleFrame]
    /\ voice_client = [r \in Banishers |-> "none"]
    /\ resp = [r \in Banishers |-> None]
    /\ raised = [r \in Banishers |-> None]
    /\ log = [r \in Banishers |-> <<>>]

\* an invocation takes the lowest free slot
BanishSlotFree(r) ==
    /\ frame[r].pc = "idle"
    /\ \A q \in Banishers : q < r => frame[q].pc # "idle"

\* if where not in self._scene_cache
SceneUnknown(c, where) == where \notin DOMAIN c

\* if who.voice is None or who.voice.channel is None
NotInVoice(v, u) == v[u] = None

\* mutant: the lock is taken before the pre-checks and an early return
\* keeps it
BanishRejectHoldingLock(r, answer) ==
    /\ resp' = [resp EXCEPT ![r] = answer]
    /\ raised' = [raised EXCEPT ![r] = None]
    /\ log' = [log EXCEPT ![r] = <<>>]
    /\ voice_client' = [voice_client EXCEPT ![r] = "none"]
    /\ lock' = LockTaken(lock)
    /\ UNCHANGED <<frame, voice>>

\* a pre-check answers the user and returns
BanishReject(r, answer) ==
    /\ resp' = [resp EXCEPT ![r] = answer]
    /\ raised' = [raised EXCEPT ![r] = None]
    /\ log' = [log EXCEPT ![r] = <<>>]
    /\ voice_client' = [voice_client EXCEPT ![r] = "none"]
    /\ UNCHANGED <<lock, frame, voice>>

\* "async with self._lock:" entered: take the lock, or queue for it; then
\* dest_channel.connect() is awaited
BanishEnterLock(r, u, where) ==
    LET f == [IdleFrame EXCEPT !.who = u, !.scene = cache[where]]
    IN /\ resp' = [resp EXCEPT ![r] = None]
       /\ raised' = [raised EXCEPT ![r] = None]
       /\ voice_client' = [voice_client EXCEPT ![r] = "none"]
       /\ IF LockFastPath(lock)
          THEN /\ lock' = LockTaken(lock)
               /\ frame' = [frame EXCEPT ![r] = [f EXCEPT !.pc = "connecting"]]
               /\ log' = [log EXCEPT ![r] = <<"lock">>]
          ELSE /\ lock' = LockQueued(lock, r)
               /\ frame' = [frame EXCEPT ![r] = [f EXCEPT !.pc = "lockwait"]]
               /\ log' = [log EXCEPT ![r] = <<>>]
       /\ UNCHANGED voice

\* a queued invocation is woken once the lock is released and it is first
BanishLockGranted(r) ==
    /\ ~lock.locked
    /\ lock.waiters # <<>>
    /\ Head(lock.waiters) = r
    /\ lock' = LockTaken([lock EXCEPT !.waiters = Tail(@)])
    /\ frame' = [frame EXCEPT ![r].pc = "connecting"]
    /\ log' = [log EXCEPT ![r] = <<"lock">>]
    /\ UNCHANGED <<voice, voice_client, resp, raised>>

\* banish, from the command's arrival to the await of dest_channel.connect():
\* the pre-checks and the entry of "async with self._lock".  Nothing on this
\* path suspends while the lock is free; an invocation that had to queue for
\* the lock continues here when it is woken.
BanishRequest(r, u, where, destOk) ==
    /\ IF frame[r].pc = "lockwait"
       THEN BanishLockGranted(r)
       ELSE /\ BanishSlotFree(r)
            /\ IF SceneUnknown(cache, where) THEN BanishReject(r, "no_scene")
               ELSE IF NotInVoice(voice, u) THEN BanishReject(r, "not_in_voice")
               ELSE IF ~destOk THEN BanishReject(r, "bad_channel")
               ELSE IF LockLocked(lock) THEN BanishReject(r, "busy")
               ELSE BanishEnterLock(r, u, where)
    /\ UNCHANGED regVars

\* an exception (or the normal end) leaves "async with self._lock": the lock
\* is released and the handler is over
BanishLeave(r, e, lg, vc) ==
    /\ lock' = LockOnExit(lock, e)
    /\ frame' = [frame EXCEPT ![r] = IdleFrame]
    /\ raised' = [raised EXCEPT ![r] = e]
    /\ log' = [log EXCEPT ![r] = Append(lg, "release")]
    /\ voice_client' = [voice_client EXCEPT ![r] = vc]

\* after the move_user block: with an exception in flight it propagates,
\* otherwise voice_client.disconnect() is awaited
AfterScope(r, e, lg) ==
    IF e # None
    THEN BanishLeave(r, e, lg, voice_client[r])
    ELSE /\ frame' = [frame EXCEPT ![r].pc = "disconnecting", ![r].exc = None]
         /\ voice_client' = [voice_client EXCEPT ![r] = "closing"]
         /\ log' = [log EXCEPT ![r] = lg]
         /\ UNCHANGED <<lock, raised>>

\* mutant: the "elif user.voice.channel.id != dest.id" branch is missing
RestoreNeededAnywhere(channel, dest) == channel # None

\* move_user's finally: is the member still where we moved them?
RestoreNeeded(channel, dest) == channel # None /\ channel = dest

\* mutant: move_user without its finally block
ScopeExitNoFinally(r, e, lg, channel) == AfterScope(r, e, lg)

\* mutant: "else:" in place of "finally:", the move back runs only when the
\* body did not raise
ScopeExitOnSuccessOnly(r, e, lg, channel) ==
    IF e = None /\ RestoreNeeded(channel, CHANNEL)
    THEN /\ frame' = [frame EXCEPT ![r].pc = "restoring", ![r].exc = e]
         /\ log' = [log EXCEPT ![r] = lg]
         /\ UNCHANGED <<lock, raised, voice_client>>
    ELSE AfterScope(r, e, IF e = None THEN Append(lg, "skip") ELSE lg)

\* the end of the move_user block (normal, or with exception e in flight),
\* the member being in `channel` at that moment: user.move_to(old_channel) is
\* awaited, or nothing is done
ScopeExit(r, e, lg, channel) ==
    IF RestoreNeeded(channel, CHANNEL)
    THEN /\ frame' = [frame EXCEPT ![r].pc = "restoring", ![r].exc = e]
         /\ log' = [log EXCEPT ![r] = lg]
         /\ UNCHANGED <<lock, raised, voice_client>>
    ELSE AfterScope(r, e, Append(lg, "skip"))

\* dest_channel.connect() returned or raised; then move_user's entry up to
\* the await of user.move_to(dest)
ConnectReturns(r, ok) ==
    /\ frame[r].pc = "connecting"
    /\ IF ~ok
       THEN BanishLeave(r, "connect_failed", log[r], "none")
       ELSE IF NotInVoice(voice, frame[r].who)
       THEN BanishLeave(r, "ValueError", Append(log[r], "connect"), "connected")
       ELSE /\ frame' = [frame EXCEPT ![r].pc = "moving_in",
                                      ![r].old_channel = voice[frame[r].who]]
            /\ voice_client' = [voice_client EXCEPT ![r] = "connected"]
            /\ log' = [log EXCEPT ![r] = Append(@, "connect")]
            /\ UNCHANGED <<lock, raised>>
    /\ UNCHANGED <<voice, resp>>
    /\ UNCHANGED regVars

\* mutant: user.move_to(dest) inside the try, so that its failure runs the
\* finally block
MoveInRejectedRestores(r) ==
    /\ frame[r].pc = "moving_in"
    /\ ScopeExit(r, "move_failed", log[r], voice[frame[r].who])
    /\ UNCHANGED <<voice, resp>>
    /\ UNCHANGED regVars

\* user.move_to(dest) raised: the platform rejected the move
MoveInRejected(r) ==
    /\ frame[r].pc = "moving_in"
    /\ BanishLeave(r, "move_failed", log[r], voice_client[r])
    /\ UNCHANGED <<voice, resp>>
    /\ UNCHANGED regVars

\* user.move_to(dest) returned; then play_file (which does not suspend) and
\* the await of send_message.  If play_file raises, move_user's finally runs.
MoveInReturns(r, playOk) ==
    /\ frame[r].pc = "moving_in"
    /\ voice[frame[r].who] # None
    /\ voice' = [voice EXCEPT ![frame[r].who] = CHANNEL]
    /\ IF playOk
       THEN /\ frame' = [frame EXCEPT ![r].pc = "announcing",
                                      ![r].played = PlayArgs(frame[r].scene)]
            /\ voice_client' = [voice_client EXCEPT ![r] = "playing"]
            /\ log' = [log EXCEPT ![r] = @ \o <<"move_in", "play">>]
            /\ UNCHANGED <<lock, raised>>
       ELSE ScopeExit(r, "play_failed", Append(log[r], "move_in"), CHANNEL)
    /\ UNCHANGED resp
    /\ UNCHANGED regVars

\* send_message(embed=e) returned or raised; then the await of asyncio.sleep
AnnounceReturns(r, ok) ==
    /\ frame[r].pc = "announcing"
    /\ IF ok
       THEN /\ frame' = [frame EXCEPT ![r].pc = "sleeping",
                                      ![r].slept = SleepMillis(frame[r].scene, cache)]
            /\ resp' = [resp EXCEPT ![r] = "announced"]
            /\ log' = [log EXCEPT ![r] = Append(@, "announce")]
            /\ UNCHANGED <<lock, raised, voice_client>>
       ELSE /\ ScopeExit(r, "send_failed", log[r], voice[frame[r].who])
            /\ UNCHANGED resp
    /\ UNCHANGED voice
    /\ UNCHANGED regVars

\* asyncio.sleep(runtime) returned, or the task was cancelled in it; then
\* move_user's finally
SleepReturns(r, ok) ==
    /\ frame[r].pc = "sleeping"
    /\ IF ok
       THEN ScopeExit(r, None, Append(log[r], "wait"), voice[frame[r].who])
       ELSE ScopeExit(r, "cancelled", log[r], voice[frame[r].who])
    /\ UNCHANGED <<voice, resp>>
    /\ UNCHANGED regVars

\* user.move_to(old_channel) raised inside the finally: this exception is
\* the one that propagates
RestoreRejected(r) ==
    /\ frame[r].pc = "restoring"
    /\ BanishLeave(r, "restore_failed", log[r], voice_client[r])
    /\ UNCHANGED <<voice, resp>>
    /\ UNCHANGED regVars

\* user.move_to(old_channel) returned
RestoreReturns(r) ==
    /\ frame[r].pc = "restoring"
    /\ voice[frame[r].who] # None
    /\ voice' = [voice EXCEPT ![frame[r].who] = frame[r].old_channel]
    /\ AfterScope(r, frame[r].exc, Append(log[r], "restore"))
    /\ UNCHANGED resp
    /\ UNCHANGED regVars

\* voice_client.disconnect() returned or raised; the lock block ends
DisconnectReturns(r, ok) ==
    /\ frame[r].pc = "disconnecting"
    /\ IF ok
       THEN BanishLeave(r, None, Append(log[r], "disconnect"), "disconnected")
       ELSE BanishLeave(r, "disconnect_failed", log[r], "closing")
    /\ UNCHANGED <<voice, resp>>
    /\ UNCHANGED regVars

\* a member joins, leaves or changes voice channel on their own
VoiceChange(u, c) ==
    /\ voice[u] # c
    /\ voice' = [voice EXCEPT ![u] = c]
    /\ UNCHANGED <<lock, frame, voice_client, resp, raised, log>>
    /\ UNCHANGED regVars

BanishNext ==
    \/ \E r \in Banishers, u \in Users, where \in Names, destOk \in BOOLEAN :
           BanishRequest(r, u, where, destOk)
    \/ \E r \in Banishers, ok \in BOOLEAN : ConnectReturns(r, ok)
    \/ \E r \in Banishers : MoveInRejected(r)
    \/ \E r \in Banishers, playOk \in BOOLEAN : MoveInReturns(r, playOk)
    \/ \E r \in Banishers, ok \in BOOLEAN : AnnounceReturns(r, ok)
    \/ \E r \in Banishers, ok \in BOOLEAN : SleepReturns(r, ok)
    \/ \E r \in Banishers : RestoreRejected(r)
    \/ \E r \in Banishers : RestoreReturns(r)
    \/ \E r \in Banishers, ok \in BOOLEAN : DisconnectReturns(r, ok)
    \/ \E u \in Users, c \in Channels \cup {None} : VoiceChange(u, c)

\* ------------------------------------------------------ specifications

Init == InitStore /\ InitReg /\ InitBanish

\* nobody is in voice
InitQuiet == Init /\ voice = [u \in Users |-> None]

\* the add_scene commands that run beside banishments: another url and a
\* 3 s runtime, so that an overwritten Scene differs from the one it replaces
AddSceneMixArgs ==
    [name : Names, user : {"u1"}, youtube_url : {"yt2"}, image_url : {"img"},
     runtime_seconds : {6000}, start_time_seconds : {0}, overwrite : BOOLEAN]

\* registrations one at a time, over every playback window
WindowNext ==
    \/ \E a \in AddSceneWindowArgs : AddSceneRequest(1, a)
    \/ DownloadNotFound(1)
    \/ DownloadRaises(1)
    \/ \E d \in Durations, wr \in WriteOutcomes : DownloadReturns(1, d, wr)

\* registrations in flight together
RegNext ==
    \/ \E g \in Registrars, a \in AddSceneArgs : AddSceneRequest(g, a)
    \/ \E g \in Registrars : DownloadNotFound(g)
    \/ \E g \in Registrars : DownloadRaises(g)
    \/ \E g \in Registrars, wr \in WriteOutcomes : DownloadReturns(g, 42, wr)

\* banishments beside registrations, one registration at a time
MixNext ==
    \/ \E a \in AddSceneMixArgs : AddSceneRequest(1, a)
    \/ DownloadNotFound(1)
    \/ DownloadRaises(1)
    \/ \E wr \in WriteOutcomes : DownloadReturns(1, 42, wr)

Next == BanishNext \/ MixNext

Spec == Init /\ [][Next]_vars
SpecBanish == Init /\ [][BanishNext]_vars
SpecReg == InitQuiet /\ [][RegNext]_vars

\* the call invocation r awaits inside the lock block (connect, move_to,
\* send_message, sleep, move_to back, disconnect) returns or raises
CallCompletes(r) ==
    \/ \E ok \in BOOLEAN : ConnectReturns(r, ok)
    \/ MoveInRejected(r)
    \/ \E playOk \in BOOLEAN : MoveInReturns(r, playOk)
    \/ \E ok \in BOOLEAN : AnnounceReturns(r, ok)
    \/ \E ok \in BOOLEAN : SleepReturns(r, ok)
    \/ RestoreRejected(r)
    \/ RestoreReturns(r)
    \/ \E ok \in BOOLEAN : DisconnectReturns(r, ok)

\* every awaited call eventually returns or raises, and the event loop then
\* resumes the handler
CallsComplete == \A r \in Banishers : WF_vars(CallCompletes(r))

\* banishments whose collaborators always answer
SpecBanishLive == Init /\ [][BanishNext]_vars /\ CallsComplete
SpecWindow == InitQuiet /\ [][WindowNext]_vars

\* -------------------------------------------------------------- claims

InLock(r) == frame[r].pc \in LockedPcs
Contains(sq, x) == \E i \in 1..Len(sq) : sq[i] = x
PreCheckAnswers == {"no_scene", "not_in_voice", "bad_channel"}

\* C1: in every reachable state at most one banish invocation is between
\* acquiring the global lock and releasing it.
MutualExclusion ==
    Cardinality({r \in Banishers : InLock(r)}) <= 1

\* C1 witness: a second banish arrived while the first slept inside the lock
MutualExclusionWitness ==
    \E r, q \in Banishers :
        r # q /\ frame[r].pc = "sleeping" /\ lock.locked /\ resp[q] = "busy"

\* C2 (as claimed): a banishment that opened a voice session and is over has
\* had disconnect called on that session.
SessionClosedOnExit ==
    \A r \in Banishers :
        (frame[r].pc = "idle" /\ voice_client[r] # "none")
            => voice_client[r] \in {"closing", "disconnected"}

\* C3: the lock is held only while the invocation that took it is in flight;
\* an invocation that is over, by success or by any exception, has released it.
LockFreeAfterExit ==
    lock.locked <=> \E r \in Banishers : InLock(r)

\* C3 witness: a banishment ended by an exception in the restoration, and the
\* lock is free
LockFreeAfterExitWitness ==
    \E r \in Banishers :
        /\ frame[r].pc = "idle"
        /\ raised[r] = "restore_failed"
        /\ Contains(log[r], "lock")
        /\ ~lock.locked

\* C4: while the lock is held, a banish command that arrives is answered by a
\* pre-check or "busy": it stays out of the lock block, does not queue for the
\* lock, opens no voice session, moves nobody and starts no playback.
BusyWhileHeld ==
    [][\A r \in Banishers :
          (lock.locked /\ frame[r].pc = "idle") =>
              /\ frame'[r].pc = "idle"
              /\ lock'.waiters = lock.waiters
              /\ (resp'[r] # resp[r] =>
                    /\ resp'[r] \in PreCheckAnswers \cup {"busy"}
                    /\ lock' = lock
                    /\ voice' = voice
                    /\ voice_client'[r] = "none"
                    /\ log'[r] = <<>>)]_vars

\* C4 witness: a banish answered "busy" while another is connecting
BusyWhileHeldWitness ==
    \E r, q \in Banishers :
        /\ r # q
        /\ frame[q].pc = "connecting"
        /\ resp[r] = "busy" /\ frame[r].pc = "idle"
        /\ log[r] = <<>> /\ voice_client[r] = "none"

\* C5: a banish rejected by the scene, in-voice or channel pre-check changes
\* nothing: lock, voice sessions, members' channels, invocations in flight and
\* the store are as before.
RejectChangesNothing ==
    [][\A r \in Banishers :
          (frame[r].pc = "idle" /\ resp'[r] # resp[r] /\ resp'[r] \in PreCheckAnswers) =>
              /\ UNCHANGED <<lock, voice, frame, shelf, cache>>
              /\ voice_client'[r] = "none"
              /\ \A q \in Banishers \ {r} : voice_client'[q] = voice_client[q]
              /\ log'[r] = <<>>]_vars

\* C5 witness: a banish for an unknown scene was rejected while another
\* banishment held the lock and a registration was downloading
RejectChangesNothingWitness ==
    \E r, q \in Banishers :
        /\ resp[r] = "no_scene" /\ frame[r].pc = "idle"
        /\ InLock(q) /\ lock.locked
        /\ \E g \in Registrars : regPc[g] = "downloading"

\* C6: when the move_user block ends, the move back is issued exactly when the
\* member is then in the destination channel; it goes to the channel captured
\* at entry; when it is not issued nobody is moved and the block raises nothing
\* of its own.
InBlock(f) == f.pc \in {"announcing", "sleeping"}
BlockExits(f, g) ==
    \/ InBlock(f) /\ ~InBlock(g)
    \/ f.pc = "moving_in" /\ g.pc = "restoring"

RestoreRule ==
    [][\A r \in Banishers :
          LET f == frame[r]
              g == frame'[r]
          IN /\ (f.pc = "connecting" /\ g.pc = "moving_in") =>
                    g.old_channel = voice[g.who]
             /\ (f.pc \in {"moving_in", "announcing", "sleeping"} /\ g.pc # "idle") =>
                    g.old_channel = f.old_channel
             /\ BlockExits(f, g) =>
                    /\ (g.pc = "restoring") <=> (voice'[f.who] = CHANNEL)
                    /\ g.pc # "restoring" =>
                          /\ voice' = voice
                          /\ \/ g.pc = "disconnecting"
                             \/ g.pc = "idle" /\ raised'[r] \in {"send_failed", "cancelled"}
             /\ (f.pc = "restoring" /\ g.pc # "restoring" /\ voice' # voice) =>
                    voice' = [voice EXCEPT ![f.who] = f.old_channel]]_vars

\* C6 witness: the member had moved on to another channel when the block
\* ended, the move back was skipped and the banishment went on to disconnect
RestoreRuleWitness ==
    \E r \in Banishers :
        /\ frame[r].pc = "disconnecting"
        /\ Contains(log[r], "skip")
        /\ voice[frame[r].who] = "C"
        /\ frame[r].old_channel = "A"

\* C7: an add_scene whose name is in the cache and that does not carry
\* overwrite starts no download and leaves the shelf and the cache as they
\* were; the only answer an add_scene gives without downloading is the
\* duplicate-name message.
DuplicateLeavesStore ==
    [][\A g \in Registrars :
          regPc[g] = "idle" =>
              /\ regPc'[g] = "downloading" =>
                    ~(regArgs'[g].name \in DOMAIN cache /\ ~regArgs'[g].overwrite)
              /\ (regPc'[g] = "idle" /\ regResp'[g] # regResp[g]) =>
                    /\ regResp'[g] = "duplicate"
                    /\ DOMAIN cache # {}
                    /\ UNCHANGED <<shelf, cache, regArgs, regDl>>]_vars

\* C7 witness: a registration was answered "duplicate" while another one,
\* overwriting the same kind of name, was downloading
DuplicateLeavesStoreWitness ==
    \E g, h \in Registrars :
        /\ regResp[g] = "duplicate" /\ regPc[g] = "idle"
        /\ regPc[h] = "downloading" /\ regArgs[h].overwrite
        /\ regArgs[h].name \in DOMAIN cache

\* C8: the Scene a successful registration stores has
\* runtime_millis = min(30000, requested runtime, duration - start offset):
\* it is below each of the three and equal to one of them; the start offset is
\* stored as requested.
StoredWindow(a, dl, scene) ==
    LET requested == Millis(a.runtime_seconds)
        start == Millis(a.start_time_seconds)
        remaining == dl.duration_millis - start
    IN /\ scene.start_time_millis = start
       /\ scene.runtime_millis <= 30000
       /\ scene.runtime_millis <= requested
       /\ 2 * scene.runtime_millis <= a.runtime_seconds
       /\ scene.runtime_millis <= remaining
       /\ scene.runtime_millis \in {30000, requested, remaining}

RuntimeIsMin ==
    [][\A g \in Registrars :
          (regPc[g] = "downloading" /\ regPc'[g] = "idle" /\ regResp'[g] = "created") =>
              /\ regArgs[g].name \in DOMAIN cache'
              /\ cache'[regArgs[g].name] = shelf'[regArgs[g].name]
              /\ StoredWindow(regArgs[g], regDl'[g], cache'[regArgs[g].name])]_vars

\* C8 witness: the 42 s clip registered with 15 s from second 5 is stored
\* with start 5000 and runtime 15000
RuntimeIsMinWitness ==
    \E g \in Registrars :
        /\ regPc[g] = "idle" /\ regResp[g] = "created"
        /\ regDl[g].duration_millis = 42000
        /\ "cave" \in DOMAIN cache
        /\ cache["cave"].start_time_millis = 5000
        /\ cache["cave"].runtime_millis = 15000

\* C9 (as claimed): every Scene in the shelf and in the cache has
\* runtime_millis >= 0 and start_time_millis >= 0.
SceneWindowNonNegative ==
    /\ \A n \in DOMAIN cache :
          cache[n].runtime_millis >= 0 /\ cache[n].start_time_millis >= 0
    /\ \A n \in DOMAIN shelf :
          shelf[n].runtime_millis >= 0 /\ shelf[n].start_time_millis >= 0

\* C10: a banishment that ends without an exception did each step once, in
\* the order lock, connect, move in, play, announce, wait, move back (or
\* skip), disconnect, release.
StepsBefore == <<"lock", "connect", "move_in", "play", "announce", "wait">>
StepsAfter == <<"disconnect", "release">>

StepsInOrder ==
    \A r \in Banishers :
        (frame[r].pc = "idle" /\ raised[r] = None /\ log[r] # <<>>) =>
            \/ log[r] = StepsBefore \o <<"restore">> \o StepsAfter
            \/ log[r] = StepsBefore \o <<"skip">> \o StepsAfter

\* C10 witness: a banishment that ran to the end and moved the member back
StepsInOrderWitness ==
    \E r \in Banishers :
        /\ frame[r].pc = "idle" /\ raised[r] = None
        /\ resp[r] = "announced"
        /\ Contains(log[r], "restore") /\ Contains(log[r], "release")
        /\ voice_client[r] = "disconnected"

\* C11 (as claimed): a banishment whose move back fails ends as its body
\* ended: with the body's exception when the body raised, and not as a
\* failure when the body succeeded.
RestoreFailureNotSurfaced ==
    [][\A r \in Banishers :
          (frame[r].pc = "restoring" /\ frame'[r].pc = "idle") =>
              raised'[r] = frame[r].exc]_vars

\* C12: once the move in has succeeded, no exception of the body (play_file,
\* send_message, the sleep or its cancellation) leaves the banishment while
\* the member is in the destination channel: the move back is awaited first,
\* and the body's exception leaves only after the member is back in the
\* channel captured at entry.
BodyErrors == {"play_failed", "send_failed", "cancelled"}

RestoreOnEveryExit ==
    [][\A r \in Banishers :
          LET f == frame[r]
              g == frame'[r]
          IN /\ (f.pc = "moving_in" /\ g.pc = "idle") => raised'[r] = "move_failed"
             /\ (f.pc \in {"announcing", "sleeping"} /\ g.pc = "idle") =>
                    /\ raised'[r] \in BodyErrors
                    /\ voice[f.who] # CHANNEL
             /\ (f.pc \in {"moving_in", "announcing", "sleeping"}
                   /\ g.pc = "restoring") =>
                    /\ voice'[f.who] = CHANNEL
                    /\ g.exc \in BodyErrors \cup {None}
             /\ (f.pc = "restoring" /\ g.pc = "idle" /\ raised'[r] \in BodyErrors) =>
                    /\ raised'[r] = f.exc
                    /\ voice'[f.who] = f.old_channel]_vars

\* C12 witness: send_message raised, the member was moved back to A and the
\* exception then ended the banishment
RestoreOnEveryExitWitness ==
    \E r \in Banishers :
        /\ frame[r].pc = "idle" /\ raised[r] = "send_failed"
        /\ log[r] = <<"lock", "connect", "move_in", "play", "restore", "release">>
        /\ \E u \in Users : voice[u] = "A"

\* C13: a relocation whose entry fails issues no restoration.  The ValueError
\* of a member who is in no voice channel at entry, and the platform's
\* rejection of the move in, leave the banishment directly: the step moves
\* nobody, nothing but the lock, the connect and the release has been done (no
\* move, no playback, no announcement, no move back), and the error is what
\* ends the banishment.  A move back is only ever awaited after a move in.
EntryErrors == {"ValueError", "move_failed"}

EntryFailureNoRestore ==
    [][\A r \in Banishers :
          LET f == frame[r]
              g == frame'[r]
          IN /\ (f.pc # "idle" /\ g.pc = "idle" /\ raised'[r] \in EntryErrors) =>
                    /\ f.pc = IF raised'[r] = "ValueError" THEN "connecting"
                                                           ELSE "moving_in"
                    /\ voice' = voice
                    /\ log'[r] = <<"lock", "connect", "release">>
                    /\ voice_client'[r] = "connected"
                    /\ resp'[r] = None
             /\ (f.pc = "connecting" /\ voice[f.who] = None /\ g.pc # "connecting") =>
                    /\ g.pc = "idle"
                    /\ raised'[r] \in {"ValueError", "connect_failed"}
             /\ (f.pc # "restoring" /\ g.pc = "restoring") =>
                    Contains(log'[r], "move_in")]_vars

\* C13 witness: the member left voice while the session was connecting, and
\* the banishment ended with the ValueError, nobody moved
EntryFailureNoRestoreWitness ==
    \E r \in Banishers :
        /\ frame[r].pc = "idle" /\ raised[r] = "ValueError"
        /\ log[r] = <<"lock", "connect", "release">>
        /\ voice_client[r] = "connected"
        /\ \A u \in Users : voice[u] = None
        /\ ~lock.locked

\* C14 (as claimed): once past the busy pre-check the lock acquisition is
\* awaited, so the step in which a request passes the pre-check leaves the
\* lock as it found it (free, for a second request to observe).
LockAwaitedAfterPreCheck ==
    [][\A r \in Banishers :
          (frame[r].pc = "idle" /\ frame'[r].pc # "idle") =>
              lock'.locked = lock.locked]_vars

\* C14 (amended): no interleaving lets two requests both pass the busy
\* pre-check.  Nothing suspends between self._lock.locked() and the entry of
\* "async with self._lock", so a request that passes the pre-check holds the
\* lock in the same step; no request ever waits on the lock, and a request
\* that arrives while it is held is answered and never runs connect, move or
\* play.
NoRequestWaitsOnLock ==
    /\ lock.waiters = <<>>
    /\ \A r \in Banishers :
          /\ frame[r].pc # "lockwait"
          /\ frame[r].pc # "idle" => (lock.locked /\ Contains(log[r], "lock"))
    /\ \A r, q \in Banishers : (r # q /\ InLock(r)) => frame[q].pc = "idle"

\* C14 witness: the first request is past the connect and awaits the move
\* in; a second request was answered "busy", and nobody queues for the lock
NoRequestWaitsOnLockWitness ==
    \E r, q \in Banishers :
        /\ r # q
        /\ frame[r].pc = "moving_in" /\ log[r] = <<"lock", "connect">>
        /\ frame[q].pc = "idle" /\ resp[q] = "busy"
        /\ lock.locked /\ lock.waiters = <<>>

\* C15 (as claimed): the cache mirrors the durable store.  After every
\* completed write_scene the cache and the shelf hold the same Scene under
\* every name, and a write_scene that fails leaves the cache as it was.
CacheMirrorsStore ==
    [][\A g \in Registrars :
          (regPc[g] = "downloading" /\ regPc'[g] = "idle") =>
              /\ regResp'[g] = "created" => cache' = shelf'
              /\ regResp'[g] # "created" => cache' = cache]_vars

\* C16: the existence check is made once, before the download is awaited.
\* A registration that passed it is never answered "duplicate" afterwards,
\* and its write is unconditional: when it completes, the cache and the shelf
\* hold the Scene it built under its name, also when another registration of
\* the same name wrote meanwhile and it carried overwrite=false (the last
\* writer wins); the other names keep their Scenes.
RegistrationRaceLastWins ==
    [][\A g \in Registrars :
          (regPc[g] = "downloading" /\ regPc'[g] = "idle") =>
              /\ regResp'[g] \in {"created", "bad_url", "error"}
              /\ regResp'[g] = "created" =>
                    LET a == regArgs[g]
                    IN /\ a.name \in DOMAIN cache' /\ a.name \in DOMAIN shelf'
                       /\ cache'[a.name].audio_url = a.youtube_url
                       /\ cache'[a.name].creator = a.user
                       /\ shelf'[a.name] = cache'[a.name]
                       /\ \A n \in DOMAIN cache \ {a.name} :
                             n \in DOMAIN cache' /\ cache'[n] = cache[n]]_vars

\* C16 witness: two registrations of "void", a name the store never held,
\* passed the check with overwrite=false while both downloads were pending;
\* one has written, and the other, still downloading, will replace its Scene
RegistrationRaceLastWinsWitness ==
    \E g, h \in Registrars :
        /\ g # h
        /\ regPc[g] = "idle" /\ regResp[g] = "created"
        /\ regPc[h] = "downloading" /\ ~regArgs[h].overwrite
        /\ regArgs[h].name = "void" /\ "void" \in DOMAIN cache
        /\ cache["void"].audio_path = regDl[g].path
        /\ cache["void"].audio_url # regArgs[h].youtube_url

\* C17: provided every awaited call eventually returns or raises, a
\* banishment that holds the lock eventually releases it and is over, the
\* state in which a new banishment is accepted.
LockEventuallyReleased ==
    \A r \in Banishers :
        (frame[r].pc \in LockedPcs) ~> (~lock.locked /\ frame[r].pc = "idle")

\* C17 witness: a banishment ran to its last call, disconnect raised, and the
\* lock is free again with no banishment in flight
LockEventuallyReleasedWitness ==
    /\ ~lock.locked
    /\ \A r \in Banishers : frame[r].pc = "idle"
    /\ \E r \in Banishers :
          /\ raised[r] = "disconnect_failed"
          /\ log[r] = <<"lock", "connect", "move_in", "play", "announce", "wait",
                        "restore", "release">>

\* C18: a registration whose download raises IndexError creates no Scene.
\* Neither of its two steps, the one that passes the existence check and the
\* one that answers "bad url", changes the shelf or the cache, also when it
\* carried overwrite=true for a name the store holds.
NoMediaNoScene ==
    [][\A g \in Registrars :
          \/ regPc[g] = "idle" /\ regPc'[g] = "downloading"
          \/ regPc[g] = "downloading" /\ regResp'[g] = "bad_url"
          => /\ shelf' = shelf
             /\ cache' = cache
             /\ regPc[g] = "downloading" => regPc'[g] = "idle"]_vars

\* C18 witness: the store holds "cave"; a registration of "cave", which can
\* only have passed the existence check with overwrite=true, was answered
\* "bad url", and the Scene the store held is still there
NoMediaNoSceneWitness ==
    /\ regPc[1] = "idle" /\ regResp[1] = "bad_url"
    /\ "cave" \in DOMAIN cache /\ "cave" \in DOMAIN shelf
    /\ cache["cave"] = StoredScene("cave", "yt1")
    /\ shelf["cave"] = StoredScene("cave", "yt1")

\* C19: registration is independent of the lock.  No step of an add_scene
\* invocation changes the lock, a banishment in flight or anything else a
\* banishment owns; a banishment in flight keeps the Scene it read before the
\* lock, whatever is written to the store meanwhile; what it hands to
\* play_file comes from that Scene, and its wait lasts the runtime it handed
\* to play_file.
RegistrationIndependentOfLock ==
    [][/\ (regVars' # regVars) =>
              /\ lock' = lock
              /\ frame' = frame
              /\ UNCHANGED <<voice, voice_client, resp, raised, log>>
       /\ \A r \in Banishers :
             LET f == frame[r]
                 g == frame'[r]
             IN /\ (f.pc \notin {"idle", "lockwait"} /\ g.pc # "idle") =>
                       g.scene = f.scene
                /\ g.pc \in {"announcing", "sleeping"} =>
                       g.played = PlayArgs(g.scene)
                /\ g.pc = "sleeping" =>
                       g.slept = g.played.runtime_millis]_vars

\* C19 witness: while a banishment to "cave" sleeps inside the lock, a
\* registration overwrote "cave" with another runtime and was answered; the
\* banishment played and waits by the Scene it read
RegistrationIndependentOfLockWitness ==
    \E r \in Banishers :
        /\ frame[r].pc = "sleeping" /\ lock.locked
        /\ frame[r].scene.name = "cave"
        /\ regPc[1] = "idle" /\ regResp[1] = "created"
        /\ cache["cave"] # frame[r].scene
        /\ cache["cave"].runtime_millis # frame[r].slept
        /\ frame[r].slept = frame[r].scene.runtime_millis
        /\ frame[r].played.runtime_millis = frame[r].slept

\* C20: the set of scene names never shrinks.  No step of a registration or
\* of a banishment removes a name from the shelf or from the cache; a name in
\* the cache is in the shelf as well; and the Scene under a name changes only
\* in the step in which a registration of that name completes its write.
SceneNamesNeverShrink ==
    [][/\ DOMAIN shelf \subseteq DOMAIN shelf'
       /\ DOMAIN cache \subseteq DOMAIN cache'
       /\ DOMAIN cache' \subseteq DOMAIN shelf'
       /\ \A n \in DOMAIN cache :
             cache'[n] # cache[n] =>
                 \E g \in Registrars :
                     /\ regPc[g] = "downloading" /\ regArgs[g].name = n
                     /\ regResp'[g] = "created"
                     /\ cache'[n].audio_url = regArgs[g].youtube_url]_vars

\* C20 witness: registrations have written "cave" and "void", a banishment
\* has run to its end, and both names are in the shelf and in the cache
SceneNamesNeverShrinkWitness ==
    /\ DOMAIN cache = Names /\ DOMAIN shelf = Names
    /\ cache["cave"].audio_url = "yt2" /\ cache["void"].audio_url = "yt2"
    /\ \E r \in Banishers :
          /\ frame[r].pc = "idle" /\ raised[r] = None
          /\ Contains(log[r], "disconnect")
          /\ frame[r].scene = NoScene

====
